---- MODULE Spec2Model ----
(***************************************************************************)
(* juju-wait: the poll loop of wait() in juju_wait/__init__.py, with the   *)
(* collaborator calls get_status() and get_log_tail() it makes through     *)
(* run_or_die().                                                           *)
(*                                                                         *)
(* One poll cycle is get_status (line 134), the classification loops       *)
(* (lines 153-189), the log-tail probes (lines 191-206), the decision      *)
(* (lines 209-211) and time.sleep (line 213).  pc is the position of the   *)
(* single thread.  Time is counted in whole seconds; a Juju timestamp is   *)
(* the pair <<minutes, seconds>> that parse_ts turns into seconds.         *)
(***************************************************************************)
EXTENDS Integers, Sequences, FiniteSets, TLC

VARIABLES
    pc,           \* position of the thread in wait()
    cycle,        \* number of the poll cycle (1 = first pass of the while loop)
    now,          \* the clock datetime.now() reads, in seconds
    status,       \* result of get_status(): service name -> service
    prev_logs,    \* wait(): prev_logs
    ready,        \* wait(): ready
    all_units,    \* wait(): all_units
    live_units,   \* wait(): live_units
    ready_units,  \* wait(): ready_units
    idle_units,   \* wait(): idle_units
    logs,         \* wait(): logs
    outcome,      \* how the process ended, "running" while it has not
    exit_status,  \* exit status of the process once it has ended
    diag,         \* <<unit, info>> of the logging.error of line 186, or << >>
    probed,       \* units get_log_tail was called for in this cycle
    prev_logs0,   \* prev_logs as it was when this cycle began
    returncode,   \* p.returncode of the last child process run_or_die ran
    prev_ready    \* ready as the cycle before this one left it

vars == <<pc, cycle, now, status, prev_logs, ready, all_units, live_units,
          ready_units, idle_units, logs, outcome, exit_status, diag, probed,
          prev_logs0, returncode, prev_ready>>

(***************************************************************************)
(* Bounds and program constants                                            *)
(***************************************************************************)
MaxCycles == 3

IDLE_CONFIRMATION == 5

SLEEP == 2

Services == {"a", "b"}

UnitsOf(sname) == IF sname = "a" THEN {"a/0"} ELSE {"b/0"}

Units == UNION {UnitsOf(s) : s \in Services}

StartTimes == {70}

\* Seconds the collaborator calls of one pass take on top of the sleep.
CallTimes == {0, 1}

\* 'since' strings of agent-status: 1:00, 1:05 and 1:09 after the hour.
SinceVals == {<<1, 0>>, <<1, 5>>, <<1, 9>>}

LogVals == {"", "2024 log line"}

InfoVals == {"hook failed: install", "hook failed: config-changed"}

\* returncode of the child process: 0, an exit code, or -N when signal N
\* killed it.
ReturnCodes == {0, 1, 2, -9}

Lives == {"alive", "dying", "dead"}

(***************************************************************************)
(* Status documents                                                        *)
(***************************************************************************)
\* An absent JSON key is "None" for a string and << >> for a timestamp.
NoAgentStatus == [current |-> "None", since |-> << >>]

AgentStatuses ==
    {NoAgentStatus, [current |-> "None", since |-> <<1, 0>>],
     [current |-> "executing", since |-> <<1, 0>>]}
    \cup {[current |-> "idle", since |-> ts] : ts \in SinceVals}

Unit(life, agent_state, info, agent_status) ==
    [life |-> life, agent_state |-> agent_state, agent_state_info |-> info,
     current |-> agent_status.current, since |-> agent_status.since]

UnitStatuses ==
    {Unit("alive", "started", "None", ast) : ast \in AgentStatuses}
    \cup {Unit(l, "started", "None", ast) :
            l \in {"dying", "dead"},
            ast \in {NoAgentStatus, [current |-> "idle", since |-> <<1, 0>>]}}
    \cup {Unit("alive", "pending", "None", ast) :
            ast \in {NoAgentStatus, [current |-> "executing", since |-> <<1, 0>>]}}
    \cup {Unit("alive", "error", info, ast) :
            info \in InfoVals,
            ast \in {NoAgentStatus, [current |-> "executing", since |-> <<1, 0>>]}}

UnitMaps(sname) == UNION {[U -> UnitStatuses] : U \in SUBSET UnitsOf(sname)}

ServiceStatuses(sname) ==
    {[life |-> l, units |-> us] : l \in Lives, us \in UnitMaps(sname)}

\* Every status document get_status() can return.
Snapshots ==
    UNION {{f \in [S -> UNION {ServiceStatuses(s) : s \in S}] :
              \A s \in S : f[s] \in ServiceStatuses(s)} : S \in SUBSET Services}

RECURSIVE Perms(_)
Perms(S) ==
    IF S = {} THEN {<< >>}
    ELSE UNION {{<<x>> \o p : p \in Perms(S \ {x})} : x \in S}

(***************************************************************************)
(* Pure functions                                                          *)
(***************************************************************************)
\* parse_ts raises TypeError when handed None.
parse_ts_raises(ts) == ts = << >>

parse_ts(ts) == ts[1] * 60 + ts[2]

\* sys.exit(n): the exit status is n modulo 256.
SysExit(n) == n % 256

\* What one subprocess.Popen(...).communicate() can do: raise OSError, or
\* end with a return code and an output.
ProcResults(outs) ==
    {[raised |-> TRUE, returncode |-> 0, out |-> << >>]}
    \cup {[raised |-> FALSE, returncode |-> rc, out |-> << >>] :
            rc \in ReturnCodes \ {0}}
    \cup {[raised |-> FALSE, returncode |-> 0, out |-> o] : o \in outs}

\* run_or_die without the test of p.returncode.
run_or_die_Unchecked(res) ==
    IF res.raised
    THEN [ok |-> FALSE, outcome |-> "AttributeError", exit_status |-> 1]
    ELSE [ok |-> TRUE, outcome |-> "running", exit_status |-> 0]

\* run_or_die: the output when the child returned 0, else the end of the
\* process.  OSError has no .cmd, so the except clause raises AttributeError.
run_or_die(res) ==
    IF res.raised
    THEN [ok |-> FALSE, outcome |-> "AttributeError", exit_status |-> 1]
    ELSE IF res.returncode = 0
    THEN [ok |-> TRUE, outcome |-> "running", exit_status |-> 0]
    ELSE [ok |-> FALSE, outcome |-> "TransportError",
          exit_status |->
              SysExit(IF res.returncode # 0 THEN res.returncode ELSE 43)]

(***************************************************************************)
(* Classification, lines 153-189                                           *)
(***************************************************************************)
\* Line 170 with the comparison turned round.
IdleConfirmed_Reversed(since, t) == since + IDLE_CONFIRMATION > t

\* Line 170 without the confirmation window.
IdleConfirmed_NoWindow(since, t) == since < t

\* Line 170: idle for more than IDLE_CONFIRMATION at clock t.
IdleConfirmed(since, t) == since + IDLE_CONFIRMATION < t

\* Body of the inner for loop, lines 159-189, for one unit at clock t.
ClassifyUnit(acc, uname, unit, t) ==
    LET seen == [acc EXCEPT !.all_units = @ \cup {uname}]
    IN  IF parse_ts_raises(unit.since)
        THEN [seen EXCEPT !.raised = "TypeError"]
        ELSE
        LET alive == unit.life \notin {"dying", "dead"}
            started == unit.agent_state = "started"
            state == unit.current
            since == parse_ts(unit.since)
        IN  IF alive /\ started
            THEN LET live == [seen EXCEPT !.live_units = @ \cup {uname}]
                 IN  IF state # "None"
                     THEN IF state = "idle" /\ IdleConfirmed(since, t)
                          THEN [live EXCEPT !.idle_units = @ \cup {uname}]
                          ELSE live
                     ELSE [live EXCEPT !.ready_units = @ \cup {uname}]
            ELSE LET notready == [seen EXCEPT !.ready = FALSE]
                 IN  IF unit.agent_state = "error"
                     THEN [notready EXCEPT
                             !.raised = "SystemExit",
                             !.diag = <<uname, unit.agent_state_info>>]
                     ELSE notready

RECURSIVE ClassifyUnits(_, _, _, _)
ClassifyUnits(acc, units, uorder, t) ==
    IF uorder = << >> \/ acc.raised # "none"
    THEN acc
    ELSE ClassifyUnits(ClassifyUnit(acc, Head(uorder), units[Head(uorder)], t),
                       units, Tail(uorder), t)

\* Lines 154-156 without the assignment to ready.
ServiceGate_Skipped(acc, service) == acc

\* Lines 154-156: the service-level gate.
ServiceGate(acc, service) ==
    IF service.life \in {"dying", "dead"}
    THEN [acc EXCEPT !.ready = FALSE]
    ELSE acc

\* The outer for loop: services in the order sorder, the units of service s
\* in the order uorders[s]; an exception ends the loop.
RECURSIVE ClassifyServices(_, _, _, _, _)
ClassifyServices(acc, st, sorder, uorders, t) ==
    IF sorder = << >> \/ acc.raised # "none"
    THEN acc
    ELSE LET sname == Head(sorder)
         IN  ClassifyServices(
                 ClassifyUnits(ServiceGate(acc, st[sname]), st[sname].units,
                               uorders[sname], t),
                 st, Tail(sorder), uorders, t)

\* Line 137 with all_units started from the units prev_logs knows.
FreshLocals_UnitsKept ==
    [ready |-> TRUE, all_units |-> DOMAIN prev_logs, live_units |-> {},
     ready_units |-> {}, idle_units |-> {}, raised |-> "none", diag |-> << >>]

\* Lines 135-151: the locals at the top of a cycle.
FreshLocals ==
    [ready |-> TRUE, all_units |-> {}, live_units |-> {}, ready_units |-> {},
     idle_units |-> {}, raised |-> "none", diag |-> << >>]

\* The orders a dict of units can be iterated in, per service.
UnitOrders(st) ==
    {f \in [DOMAIN st -> UNION {Perms(DOMAIN st[s].units) : s \in DOMAIN st}] :
        \A s \in DOMAIN st : f[s] \in Perms(DOMAIN st[s].units)}

\* Line 191 without the test of ready.
ProbeGate_Unguarded(acc) == acc.ready_units # {}

\* Line 191: the probes run only when nothing has cleared ready and some
\* unit waits for a probe.
ProbeGate(acc) == acc.ready /\ acc.ready_units # {}

\* Line 209 with a subset test in place of the equality.
IsSteady_Subset == ready /\ idle_units \subseteq all_units

\* Line 209 without the test of ready.
IsSteady_NoGate == all_units = idle_units

\* Line 209.
IsSteady == ready /\ all_units = idle_units

(***************************************************************************)
(* The state machine                                                       *)
(***************************************************************************)
Init ==
    /\ pc = "get_status"
    /\ cycle = 1
    /\ now \in StartTimes
    /\ status = << >>
    /\ prev_logs = << >>
    /\ ready = TRUE
    /\ all_units = {}
    /\ live_units = {}
    /\ ready_units = {}
    /\ idle_units = {}
    /\ logs = << >>
    /\ outcome = "running"
    /\ exit_status = 0
    /\ diag = << >>
    /\ probed = {}
    /\ prev_logs0 = << >>
    /\ returncode = 0
    /\ prev_ready = TRUE

\* The process ends: sys.exit or an uncaught exception.
Die(how, code) ==
    /\ pc' = "done"
    /\ outcome' = how
    /\ exit_status' = code

\* Lines 134-151: get_status() and the reset of the locals, when the child
\* process does one of results.
GetStatusWith(results) ==
    /\ pc = "get_status"
    /\ \E res \in results :
         LET r == run_or_die(res)
         IN  /\ returncode' = res.returncode
             /\ IF r.ok
                THEN /\ status' = res.out
                     /\ ready' = TRUE
                     /\ all_units' = {}
                     /\ live_units' = {}
                     /\ ready_units' = {}
                     /\ idle_units' = {}
                     /\ logs' = << >>
                     /\ probed' = {}
                     /\ pc' = "classify"
                     /\ UNCHANGED <<outcome, exit_status>>
                ELSE /\ Die(r.outcome, r.exit_status)
                     /\ UNCHANGED <<status, ready, all_units, live_units,
                                    ready_units, idle_units, logs, probed>>
    /\ UNCHANGED <<cycle, now, prev_logs, diag, prev_logs0, prev_ready>>

GetStatus == GetStatusWith(ProcResults(Snapshots))

\* Lines 153-191: both for loops, then the test that guards the probes.
Classify ==
    /\ pc = "classify"
    /\ \E sorder \in Perms(DOMAIN status), uorders \in UnitOrders(status) :
         LET acc == ClassifyServices(FreshLocals, status, sorder, uorders, now)
         IN  /\ ready' = acc.ready
             /\ all_units' = acc.all_units
             /\ live_units' = acc.live_units
             /\ ready_units' = acc.ready_units
             /\ idle_units' = acc.idle_units
             /\ diag' = acc.diag
             /\ IF acc.raised = "SystemExit"
                THEN Die("FAILED", SysExit(1))
                ELSE IF acc.raised = "TypeError"
                THEN Die("TypeError", 1)
                ELSE /\ pc' = IF ProbeGate(acc) THEN "probe" ELSE "decide"
                     /\ UNCHANGED <<outcome, exit_status>>
    /\ UNCHANGED <<cycle, now, status, prev_logs, logs, probed, prev_logs0,
                   returncode, prev_ready>>

\* Line 199 with a missing entry taken for a match.
SameLog_MissingMatches(log, prev, uname) ==
    uname \notin DOMAIN prev \/ log = prev[uname]

\* Line 199: logs[uname] == prev_logs.get(uname); .get gives None, which no
\* log tail equals, for a unit prev_logs has no entry for.
SameLog(log, prev, uname) == uname \in DOMAIN prev /\ log = prev[uname]

\* Line 206 as an update of the old map instead of its replacement.
StoreLogs_Merged(new, old) == new @@ old

\* Line 206: prev_logs = logs.
StoreLogs(new, old) == new

\* Line 197 over the live units instead of the ready ones.
ProbeTargets_Live == live_units

\* Line 197: the units the probe loop iterates over.
ProbeTargets == ready_units

\* Lines 197-206: one pass of the probe loop, when the child process does
\* one of results; the pass for the last unit also replaces prev_logs
\* (line 206).
GetLogTailWith(uname, results) ==
    /\ pc = "probe"
    /\ uname \in ProbeTargets \ probed
    /\ probed' = probed \cup {uname}
    /\ \E res \in results :
         LET r == run_or_die(res)
         IN  /\ returncode' = res.returncode
             /\ IF r.ok
                THEN /\ logs' = (uname :> res.out) @@ logs
                     /\ idle_units' =
                          IF SameLog(res.out, prev_logs, uname)
                          THEN idle_units \cup {uname}
                          ELSE idle_units
                     /\ IF probed' = ProbeTargets
                        THEN /\ prev_logs' = StoreLogs(logs', prev_logs)
                             /\ pc' = "decide"
                        ELSE UNCHANGED <<prev_logs, pc>>
                     /\ UNCHANGED <<outcome, exit_status>>
                ELSE /\ Die(r.outcome, r.exit_status)
                     /\ UNCHANGED <<logs, idle_units, prev_logs>>
    /\ UNCHANGED <<cycle, now, status, ready, all_units, live_units,
                   ready_units, diag, prev_logs0, prev_ready>>

GetLogTail(uname) == GetLogTailWith(uname, ProcResults(LogVals))

\* Lines 209-211: return, or go on to the sleep.
Decide ==
    /\ pc = "decide"
    /\ IF IsSteady
       THEN Die("READY", 0)
       ELSE /\ pc' = "sleep"
            /\ UNCHANGED <<outcome, exit_status>>
    /\ UNCHANGED <<cycle, now, status, prev_logs, ready, all_units, live_units,
                   ready_units, idle_units, logs, diag, probed, prev_logs0,
                   returncode, prev_ready>>

\* Line 213, and back to the top of the while loop.  What the finished
\* pass left in status and in the locals is dead (lines 134-151 assign all
\* of them anew), so it is dropped here; only prev_logs is carried over.
SleepTo(st) ==
    /\ pc = "sleep"
    /\ \E d \in CallTimes : now' = now + SLEEP + d
    /\ cycle' = cycle + 1
    /\ pc' = "get_status"
    /\ status' = st
    /\ ready' = TRUE
    /\ all_units' = {}
    /\ live_units' = {}
    /\ ready_units' = {}
    /\ idle_units' = {}
    /\ logs' = << >>
    /\ probed' = {}
    /\ prev_logs0' = prev_logs
    /\ prev_ready' = ready
    /\ UNCHANGED <<prev_logs, outcome, exit_status, diag, returncode>>

Sleep == cycle < MaxCycles /\ SleepTo(<< >>)

Next ==
    \/ GetStatus
    \/ Classify
    \/ \E uname \in Units : GetLogTail(uname)
    \/ Decide
    \/ Sleep

Spec == Init /\ [][Next]_vars

(***************************************************************************)
(* The loop in a quiescent environment: every get_status returns the same  *)
(* status, in which all services are alive and every unit is alive,        *)
(* started and either idle or without fine-grained state; every log tail   *)
(* is the one of the cycle before; no collaborator call fails.  The run    *)
(* starts at the top of a cycle with whatever prev_logs the cycles before  *)
(* left, and the clock is followed until it has passed every window.       *)
(***************************************************************************)
QuietSnapshots ==
    {st \in Snapshots :
        /\ \A s \in DOMAIN st : st[s].life = "alive"
        /\ \A s \in DOMAIN st : \A u \in DOMAIN st[s].units :
             /\ st[s].units[u].life = "alive"
             /\ st[s].units[u].agent_state = "started"
             /\ st[s].units[u].current \in {"None", "idle"}}

\* The child process ends with return code 0 and one of outs.
Succeeds(outs) ==
    {[raised |-> FALSE, returncode |-> 0, out |-> o] : o \in outs}

PrevLogMaps == UNION {[U -> LogVals] : U \in SUBSET Units}

\* The first clock reading at which no 'since' is inside the window is the
\* one after QuietHorizon.
QuietHorizon ==
    IDLE_CONFIRMATION
    + CHOOSE t \in {parse_ts(ts) : ts \in SinceVals} :
        \A ts \in SinceVals : parse_ts(ts) <= t

QuietInit ==
    /\ pc = "get_status"
    /\ cycle = 1
    /\ now \in StartTimes
    /\ status = << >>
    /\ prev_logs \in PrevLogMaps
    /\ ready = TRUE
    /\ all_units = {}
    /\ live_units = {}
    /\ ready_units = {}
    /\ idle_units = {}
    /\ logs = << >>
    /\ outcome = "running"
    /\ exit_status = 0
    /\ diag = << >>
    /\ probed = {}
    /\ prev_logs0 = prev_logs
    /\ returncode = 0
    /\ prev_ready = TRUE

GetStatusQuiet ==
    GetStatusWith(Succeeds(IF cycle = 1 THEN QuietSnapshots ELSE {status}))

\* From the second cycle on the log tail of a unit is the one stored for it.
GetLogTailQuiet(uname) ==
    GetLogTailWith(uname,
                   Succeeds(IF cycle > 1 /\ uname \in DOMAIN prev_logs
                            THEN {prev_logs[uname]} ELSE LogVals))

SleepQuiet == now <= QuietHorizon /\ SleepTo(status)

NextQuiet ==
    \/ GetStatusQuiet
    \/ Classify
    \/ \E uname \in Units : GetLogTailQuiet(uname)
    \/ Decide
    \/ SleepQuiet

\* The thread is the only one and nothing suspends it for ever.
SpecQuiet == QuietInit /\ [][NextQuiet]_vars /\ WF_vars(NextQuiet)

(***************************************************************************)
(* Vocabulary of the properties, read off the status document itself       *)
(***************************************************************************)
SnapUnits(st) == UNION {DOMAIN st[s].units : s \in DOMAIN st}

UnitOf(st, uname) ==
    st[CHOOSE s \in DOMAIN st : uname \in DOMAIN st[s].units].units[uname]

DyingService(st) == \E s \in DOMAIN st : st[s].life \in {"dying", "dead"}

ErrorUnits(st) == {u \in SnapUnits(st) : UnitOf(st, u).agent_state = "error"}

AliveStarted(unit) ==
    unit.life \notin {"dying", "dead"} /\ unit.agent_state = "started"

\* Alive, started and reporting a fine-grained state.
FineGrained(unit) == AliveStarted(unit) /\ unit.current # "None"

\* Alive, started and reporting no fine-grained state.
CoarseGrained(unit) == AliveStarted(unit) /\ unit.current = "None"

\* Seconds the unit has been in its fine-grained state at clock t.
Age(unit, t) == t - parse_ts(unit.since)

\* get_status() of this cycle has returned a status document.
HasSnapshot ==
    /\ pc # "get_status"
    /\ ~(pc = "done" /\ outcome \in {"TransportError", "AttributeError"}
         /\ probed = {})

\* The for loops of this cycle ran to their end.
Classified ==
    /\ HasSnapshot
    /\ pc # "classify"
    /\ ~(pc = "done" /\ outcome \in {"FAILED", "TypeError"})

\* wait() returned in this cycle.
Returned == pc = "done" /\ outcome = "READY"

\* The test of line 209 has been made in this cycle.
Decided == pc = "sleep" \/ Returned

\* The cycle is over: the process ended in it, or it reached the sleep.
CycleOver == HasSnapshot /\ pc \in {"sleep", "done"}

\* Units the probes of this cycle found unchanged.
ProbeIdle ==
    {u \in DOMAIN logs : u \in DOMAIN prev_logs0 /\ logs[u] = prev_logs0[u]}

\* Units whose status alone shows them idle for more than the window.
FineIdle(st, t) ==
    {u \in SnapUnits(st) :
        /\ FineGrained(UnitOf(st, u))
        /\ UnitOf(st, u).current = "idle"
        /\ Age(UnitOf(st, u), t) > IDLE_CONFIRMATION}

(***************************************************************************)
(* C1.  A cycle that reaches the decision returns READY exactly when no    *)
(* service of its snapshot is dying or dead and every unit of the snapshot *)
(* is in the idle set of the cycle, which is the fine-grained idle units   *)
(* plus the units the probes found unchanged; otherwise the loop goes on   *)
(* to the sleep.  A snapshot without units and without a dying service is  *)
(* READY at once.                                                          *)
(***************************************************************************)
C1_ReadyIff ==
    Decided =>
        /\ idle_units = FineIdle(status, now) \cup ProbeIdle
        /\ Returned <=>
             (~DyingService(status) /\ SnapUnits(status) = idle_units)
        /\ (SnapUnits(status) = {} /\ ~DyingService(status)) => Returned

C1_Witness ==
    /\ Returned
    /\ cycle = 1
    /\ DOMAIN status # {}
    /\ SnapUnits(status) = {}

(***************************************************************************)
(* C2.  Whenever the snapshot holds a unit in agent-state error, the cycle *)
(* ends in FAILED with a non-zero exit status, the diagnostic names an     *)
(* error unit and its agent-state-info, and no probe was issued.           *)
(***************************************************************************)
C2_ErrorAlwaysFails ==
    (HasSnapshot /\ pc # "classify" /\ ErrorUnits(status) # {}) =>
        /\ pc = "done"
        /\ outcome = "FAILED"
        /\ exit_status # 0
        /\ probed = {}
        /\ diag # << >>
        /\ diag[1] \in ErrorUnits(status)
        /\ diag[2] = UnitOf(status, diag[1]).agent_state_info

(***************************************************************************)
(* C3.  While the snapshot holds a dying or dead service and no unit in    *)
(* error, wait() does not return: no probe is made, and a cycle that       *)
(* reaches the decision goes on to the sleep, also when every unit is in   *)
(* the idle set.                                                           *)
(***************************************************************************)
C3_DyingServiceNotReady ==
    (HasSnapshot /\ DyingService(status) /\ ErrorUnits(status) = {}) =>
        /\ ~Returned
        /\ probed = {}
        /\ pc # "probe"
        /\ (pc = "done" => outcome = "TypeError")

C3_Witness ==
    /\ pc = "sleep"
    /\ DyingService(status)
    /\ SnapUnits(status) = Units
    /\ idle_units = Units

(***************************************************************************)
(* C4.  Original statement: when every service is alive and every unit is  *)
(* alive, started and idle for at least IDLE_CONFIRMATION seconds, the     *)
(* cycle returns READY with every unit in the idle set.                    *)
(***************************************************************************)
AllIdleAtLeast(st, t, secs) ==
    /\ ~DyingService(st)
    /\ \A u \in SnapUnits(st) :
         /\ FineGrained(UnitOf(st, u))
         /\ UnitOf(st, u).current = "idle"
         /\ Age(UnitOf(st, u), t) >= secs

C4_ReadyAtBoundary ==
    (CycleOver /\ AllIdleAtLeast(status, now, IDLE_CONFIRMATION)) =>
        (Returned /\ idle_units = SnapUnits(status))

(***************************************************************************)
(* C4, amended.  When every service is alive and every unit is alive,      *)
(* started and idle for more than IDLE_CONFIRMATION seconds, the cycle     *)
(* returns READY with every unit in the idle set.                          *)
(***************************************************************************)
C4_ReadyPastWindow ==
    (CycleOver /\ AllIdleAtLeast(status, now, IDLE_CONFIRMATION + 1)) =>
        (Returned /\ idle_units = SnapUnits(status))

C4_Witness ==
    /\ Returned
    /\ SnapUnits(status) = Units
    /\ AllIdleAtLeast(status, now, IDLE_CONFIRMATION + 1)
    /\ \E u \in Units : Age(UnitOf(status, u), now) = IDLE_CONFIRMATION + 1

(***************************************************************************)
(* C5.  A fine-grained unit idle for less than IDLE_CONFIRMATION seconds   *)
(* is not in the idle set and wait() does not return in that cycle; a      *)
(* fine-grained unit idle for 10 seconds or more is in the idle set once   *)
(* the classification is complete.                                         *)
(***************************************************************************)
C5_Debounce ==
    HasSnapshot =>
        \A u \in SnapUnits(status) :
            LET unit == UnitOf(status, u)
            IN  (FineGrained(unit) /\ unit.current = "idle") =>
                  /\ Age(unit, now) < IDLE_CONFIRMATION =>
                       (u \notin idle_units /\ ~Returned)
                  /\ (Age(unit, now) >= 10 /\ Classified) =>
                       u \in idle_units

C5_Witness ==
    /\ pc = "sleep"
    /\ \E u, v \in SnapUnits(status) :
         /\ FineGrained(UnitOf(status, u))
         /\ UnitOf(status, u).current = "idle"
         /\ Age(UnitOf(status, u), now) = 1
         /\ u \notin idle_units
         /\ FineGrained(UnitOf(status, v))
         /\ UnitOf(status, v).current = "idle"
         /\ Age(UnitOf(status, v), now) = 10
         /\ v \in idle_units

(***************************************************************************)
(* C6.  With every service alive and every unit alive, started and without *)
(* a fine-grained state, and no collaborator call failing: the first cycle *)
(* is NOT-READY and stores the probe value of every unit; a second cycle   *)
(* over the same units whose probes return the stored values returns      *)
(* READY.                                                                  *)
(***************************************************************************)
CoarseFleet(st) ==
    /\ ~DyingService(st)
    /\ SnapUnits(st) # {}
    /\ \A u \in SnapUnits(st) : CoarseGrained(UnitOf(st, u))

CallFailed == outcome \in {"TransportError", "AttributeError"}

C6_TwoCycleConvergence ==
    (CycleOver /\ CoarseFleet(status) /\ ~CallFailed) =>
        /\ cycle = 1 =>
             /\ pc = "sleep"
             /\ DOMAIN prev_logs = SnapUnits(status)
             /\ prev_logs = logs
        /\ (cycle = 2 /\ DOMAIN prev_logs0 = SnapUnits(status)
            /\ logs = prev_logs0) => Returned

(***************************************************************************)
(* C7.  A child process that ends with a non-zero return code ends the     *)
(* process with a non-zero exit status, the return code itself (modulo     *)
(* 256, as sys.exit does); READY ends it with status zero and FAILED with  *)
(* a non-zero status; and once the process has ended nothing more happens: *)
(* no retry, no further get_status, no further probe.                      *)
(***************************************************************************)
C7_ExitStatus ==
    /\ returncode # 0 =>
         /\ pc = "done"
         /\ outcome = "TransportError"
         /\ exit_status # 0
         /\ exit_status = returncode % 256
         /\ returncode > 0 => exit_status = returncode
    /\ outcome = "TransportError" => returncode # 0
    /\ outcome = "READY" => (pc = "done" /\ exit_status = 0)
    /\ outcome = "FAILED" => (pc = "done" /\ exit_status # 0)

C7_FailureIsTerminal ==
    []C7_ExitStatus /\ [][pc = "done" => UNCHANGED vars]_vars

C7_Witness ==
    /\ pc = "done"
    /\ outcome = "TransportError"
    /\ returncode = 2
    /\ exit_status = 2
    /\ probed # {}

(***************************************************************************)
(* C8.  In a snapshot with all services alive and all units alive and      *)
(* started, some fine-grained and some not, and no collaborator call       *)
(* failing: every fine-grained unit is in the idle set exactly when its    *)
(* own status shows it idle past the window, every other unit is           *)
(* ready-for-probe and in the idle set exactly when its own probe equals   *)
(* its stored value, and the cycle returns READY exactly when all of them  *)
(* are idle in this way.                                                   *)
(***************************************************************************)
MixedFleet(st) ==
    /\ ~DyingService(st)
    /\ \A u \in SnapUnits(st) : AliveStarted(UnitOf(st, u))
    /\ \E u \in SnapUnits(st) : FineGrained(UnitOf(st, u))
    /\ \E u \in SnapUnits(st) : CoarseGrained(UnitOf(st, u))

C8_MixedFleet ==
    (CycleOver /\ MixedFleet(status) /\ ~CallFailed) =>
        /\ \A u \in SnapUnits(status) :
             IF FineGrained(UnitOf(status, u))
             THEN u \in idle_units <=> u \in FineIdle(status, now)
             ELSE /\ u \in ready_units
                  /\ u \in idle_units <=> u \in ProbeIdle
        /\ Returned <=>
             \A u \in SnapUnits(status) :
                 IF FineGrained(UnitOf(status, u))
                 THEN u \in FineIdle(status, now)
                 ELSE u \in ProbeIdle

(***************************************************************************)
(* C9.  A unit that is alive and started and carries neither a             *)
(* fine-grained state nor its timestamp does not make the classification   *)
(* end abnormally, and is ready-for-probe when the classification is       *)
(* complete.                                                               *)
(***************************************************************************)
C9_CoarseReadyForProbe ==
    (HasSnapshot /\ pc # "classify") =>
        \A u \in SnapUnits(status) :
            (CoarseGrained(UnitOf(status, u))
             /\ UnitOf(status, u).since = << >>) =>
                /\ outcome # "TypeError"
                /\ Classified => u \in ready_units

ProbingDone == probed # {} /\ (pc \in {"decide", "sleep"} \/ Returned)

C11_MapReplaced ==
    ProbingDone =>
        /\ DOMAIN prev_logs = ready_units
        /\ DOMAIN prev_logs =
             {u \in SnapUnits(status) : CoarseGrained(UnitOf(status, u))}
        /\ \A u \in DOMAIN prev_logs : prev_logs[u] = logs[u]

\* The entry of a unit that is no longer ready-for-probe has gone.
C11_Witness ==
    /\ pc = "sleep"
    /\ ProbingDone
    /\ \E u \in DOMAIN prev_logs0 : u \notin DOMAIN prev_logs

(***************************************************************************)
(* C12.  A unit without fine-grained state is in the idle set only if it   *)
(* was probed in this cycle and its probe value equals the value stored    *)
(* under its name when the cycle began; when it has no stored value, or    *)
(* its probe value differs, it is not in the idle set and wait() does not  *)
(* return in this cycle.                                                   *)
(***************************************************************************)
C12_IdleOnlyByMatch ==
    HasSnapshot =>
        \A u \in SnapUnits(status) :
            CoarseGrained(UnitOf(status, u)) =>
                /\ u \in idle_units =>
                     /\ u \in DOMAIN logs
                     /\ u \in DOMAIN prev_logs0
                     /\ logs[u] = prev_logs0[u]
                /\ (\/ u \notin DOMAIN prev_logs0
                    \/ (u \in DOMAIN logs /\ logs[u] # prev_logs0[u])) =>
                     (u \notin idle_units /\ ~Returned)

\* A probe value that differs from the stored one.
C12_Witness ==
    /\ pc = "sleep"
    /\ \E u \in DOMAIN logs :
         /\ u \in DOMAIN prev_logs0
         /\ logs[u] # prev_logs0[u]
         /\ u \notin idle_units

Departed == DOMAIN prev_logs0 \ SnapUnits(status)

C14_DepartedUnitsIgnored ==
    /\ Classified =>
         (all_units = SnapUnits(status) /\ all_units \cap Departed = {})
    /\ (Decided /\ ~DyingService(status) /\ SnapUnits(status) = idle_units) =>
         Returned

\* READY over the units that are left, right after a unit has gone.
C14_Witness ==
    /\ Returned
    /\ SnapUnits(status) # {}
    /\ Departed # {}

(***************************************************************************)
(* C15.  NOT-READY is never terminal and the loop ends in three ways only: *)
(* the process has ended exactly when wait() returned READY, a unit in     *)
(* agent-state error made it exit, or a collaborator call failed; a cycle  *)
(* at its sleep has ended nothing, and at the top of a cycle no unit has   *)
(* been classified or probed yet.                                          *)
(***************************************************************************)
C15_LoopEndsThreeWays ==
    /\ pc = "done" <=> outcome # "running"
    /\ pc = "done" =>
         outcome \in {"READY", "FAILED", "TransportError", "AttributeError"}
    /\ outcome = "FAILED" => ErrorUnits(status) # {}
    /\ pc = "sleep" => ~IsSteady
    /\ pc = "get_status" => (probed = {} /\ all_units = {} /\ logs = << >>)

(***************************************************************************)
(* C16.  The classification of a snapshot does not depend on the order in  *)
(* which its services and units are iterated: every order gives the same   *)
(* decision and, when the loops run to their end, the same ready flag and  *)
(* the same sets of units; and a cycle starts its classification with      *)
(* nothing of the cycle before but prev_logs.                              *)
(***************************************************************************)
Verdict(acc) ==
    IF acc.raised # "none"
    THEN [end |-> acc.raised, ready |-> FALSE, all_units |-> {},
          ready_units |-> {}, idle_units |-> {}]
    ELSE [end |-> "none", ready |-> acc.ready, all_units |-> acc.all_units,
          ready_units |-> acc.ready_units, idle_units |-> acc.idle_units]

Verdicts(st, t) ==
    {Verdict(ClassifyServices(FreshLocals, st, sorder, uorders, t)) :
        sorder \in Perms(DOMAIN st), uorders \in UnitOrders(st)}

C16_OrderIndependent ==
    pc = "classify" =>
        /\ Cardinality(Verdicts(status, now)) = 1
        /\ ready
        /\ all_units = {}
        /\ live_units = {}
        /\ ready_units = {}
        /\ idle_units = {}
        /\ logs = << >>
        /\ probed = {}

(***************************************************************************)
(* C17.  When wait() returns READY, the snapshot of that cycle has no      *)
(* dying or dead service, every unit is alive and started, every unit with *)
(* a fine-grained state is idle for longer than the window, and every unit *)
(* without one was probed in that cycle with the value stored for it.      *)
(***************************************************************************)
C17_ReadyIsSound ==
    Returned =>
        /\ ~DyingService(status)
        /\ \A u \in SnapUnits(status) :
             LET unit == UnitOf(status, u)
             IN  /\ unit.life \notin {"dying", "dead"}
                 /\ unit.agent_state = "started"
                 /\ unit.current # "None" =>
                      /\ unit.current = "idle"
                      /\ Age(unit, now) > IDLE_CONFIRMATION
                 /\ unit.current = "None" =>
                      /\ u \in probed
                      /\ u \in DOMAIN prev_logs0
                      /\ logs[u] = prev_logs0[u]

C17_Witness ==
    /\ Returned
    /\ \E u \in SnapUnits(status) : FineGrained(UnitOf(status, u))
    /\ \E u \in SnapUnits(status) : CoarseGrained(UnitOf(status, u))

(***************************************************************************)
(* C18.  In a quiescent environment the loop does not poll for ever: the   *)
(* process ends in no other way than by READY, and once the clock has      *)
(* passed the window of every unit no cycle is NOT-READY any more.         *)
(***************************************************************************)
C18_QuietRunReturns ==
    /\ pc = "done" => outcome = "READY"
    /\ pc = "sleep" => now <= QuietHorizon

====
